---- MODULE Spec2Model ----
(***************************************************************************)
(* GigOptimizer (src/app.py): the selection engine optimize_projects, and  *)
(* the session state of the Streamlit page main() that calls it.           *)
(*   Spec     calls of optimize_projects on arguments the page can produce *)
(*   SpecRaw  the same calls on arguments nothing has validated            *)
(*   SpecApp  the page: one action per user interaction, each a whole run  *)
(*            of main()                                                    *)
(*                                                                         *)
(* A DataFrame is a sequence of rows; a row keeps the three numeric        *)
(* columns the engine reads (total_pay, hours_required, skill_match).      *)
(* Positions are 1-based here and 0-based in pandas.  Python's None is the *)
(* empty tuple and a present value v is <<v>>, so that None, an empty      *)
(* DataFrame and a non-empty one are three different values.               *)
(*                                                                         *)
(* scipy.optimize.milp is a library: it is modelled by its contract (an    *)
(* optimal vertex of the 0/1 programme, or success = False when the        *)
(* programme is infeasible).  Which optimum it returns on a tie is not     *)
(* specified by the library; it is a fixed but unknown property of the     *)
(* solver build, drawn once in Init (tie_rule) and never changed.          *)
(***************************************************************************)
EXTENDS Integers, Sequences, FiniteSets

\* ---------------------------------------------------------------- bounds
MaxProjects == 2
MaxBudget == 3
PayValues == {0, 1, 2}
HoursValues == {1, 2}
SkillValues == {0, 1}

VARIABLES
    projects_df,           \* argument: the candidate list
    available_hours,       \* argument: the budget of the latest call
    min_skill_match,       \* argument: the threshold
    tie_rule,              \* the solver build's tie-breaking (see above)
    pc,                    \* "start", "returned" (one call made), "again" (two);
                           \* in the app "start", then "rendered"
    eligible_df,           \* local of the latest call (None before line 102)
    selected_indices,      \* local: positions in eligible_df with x > 0.5
    selected_projects,     \* 1st component of the returned triple
    optimization_results,  \* 2nd component of the returned triple
    error,                 \* 3rd component of the returned triple
    prev,                  \* the first call of the run, once a second is made
    last_available_hours,  \* st.session_state.last_available_hours (None: absent)
    last_min_skill,        \* st.session_state.last_min_skill (None: absent)
    computed_with          \* history: the sliders' values the stored results
                           \* were computed with (None: no stored results)

vars == <<projects_df, available_hours, min_skill_match, tie_rule, pc,
          eligible_df, selected_indices, selected_projects,
          optimization_results, error, prev,
          last_available_hours, last_min_skill, computed_with>>

None == <<>>
Some(v) == <<v>>

Rows == [total_pay : PayValues, hours_required : HoursValues, skill_match : SkillValues]
Budgets == 0 .. MaxBudget
Thresholds == SkillValues
DataFrames == UNION {[1 .. k -> Rows] : k \in 0 .. MaxProjects}

\* ------------------------------------------------------------- helpers
\* df[col].values
Column(df, col) == [i \in 1 .. Len(df) |-> df[i][col]]

RECURSIVE SumTo(_, _)
SumTo(f, k) == IF k = 0 THEN 0 ELSE SumTo(f, k - 1) + f[k]

\* Series.sum()
Sum(s) == SumTo(s, Len(s))

Min(S) == CHOOSE v \in S : \A w \in S : v <= w

\* A @ x for the single-row matrix A
Dot(a, x) == SumTo([i \in 1 .. Len(a) |-> a[i] * x[i]], Len(a))

\* Mutant: the threshold compared strictly
eligible_mask_Strict(df, threshold) ==
    [i \in 1 .. Len(df) |-> df[i].skill_match > threshold]

\* projects_df['skill_match'] >= min_skill_match
eligible_mask(df, threshold) == [i \in 1 .. Len(df) |-> df[i].skill_match >= threshold]

\* df[mask].reset_index(drop=True): the rows whose mask is True, in order
RECURSIVE MaskRows(_, _, _)
MaskRows(df, mask, k) ==
    IF k = 0 THEN <<>>
    ELSE IF mask[k] THEN Append(MaskRows(df, mask, k - 1), df[k])
         ELSE MaskRows(df, mask, k - 1)

BooleanIndex(df, mask) == MaskRows(df, mask, Len(df))

\* Mutant: the earnings handed to the minimiser without the sign change
Objective_NotNegated(earnings) == [i \in 1 .. Len(earnings) |-> earnings[i]]

\* c = -earnings
Objective(earnings) == [i \in 1 .. Len(earnings) |-> 0 - earnings[i]]

\* Mutant: the upper bound one hour too high
LinearConstraint_Loose(A, ub) == [A |-> A, lb_finite |-> FALSE, lb |-> 0, ub |-> ub + 1]

\* Mutant: lb = ub, the budget as an equality
LinearConstraint_Equality(A, ub) == [A |-> A, lb_finite |-> TRUE, lb |-> ub, ub |-> ub]

\* LinearConstraint(A, lb=-np.inf, ub=available_hours)
LinearConstraint(A, ub) == [A |-> A, lb_finite |-> FALSE, lb |-> 0, ub |-> ub]

Satisfies(con, x) ==
    /\ con.lb_finite => con.lb <= Dot(con.A, x)
    /\ Dot(con.A, x) <= con.ub

\* Mutant: a solver that breaks ties one way on the first call of the process
\* and the other way afterwards
RECURSIVE SolverChoice_Unstable(_, _, _)
SolverChoice_Unstable(opt, i, n) ==
    IF i > n THEN CHOOSE x \in opt : TRUE
    ELSE LET want == IF (i \in tie_rule) = (pc = "start") THEN 1 ELSE 0
             keep == {x \in opt : x[i] = want}
         IN  SolverChoice_Unstable(IF keep = {} THEN opt ELSE keep, i + 1, n)

\* The optimum the solver build returns among the optimal vertices: going
\* through the variables in order, it keeps variable i at 1 when i is in
\* tie_rule and at 0 otherwise, whenever an optimum allows it.
RECURSIVE SolverChoice(_, _, _)
SolverChoice(opt, i, n) ==
    IF i > n THEN CHOOSE x \in opt : TRUE
    ELSE LET want == IF i \in tie_rule THEN 1 ELSE 0
             keep == {x \in opt : x[i] = want}
         IN  SolverChoice(IF keep = {} THEN opt ELSE keep, i + 1, n)

\* milp(c, constraints=..., bounds=Bounds(0, 1), integrality=ones(n)):
\* minimise c @ x over x in {0,1}^n meeting the constraint
milp(c, con, n) ==
    LET X == [1 .. n -> {0, 1}]
        feasible == {x \in X : Satisfies(con, x)}
        fun == Min({Dot(c, x) : x \in feasible})
        opt == {x \in feasible : Dot(c, x) = fun}
    IN  IF feasible = {}
        THEN [success |-> FALSE, x |-> <<>>]
        ELSE [success |-> TRUE, x |-> SolverChoice(opt, 1, n)]

\* Mutant: the comparison with 0.5 turned round
RECURSIVE Where_Inverted(_, _)
Where_Inverted(x, k) ==
    IF k = 0 THEN <<>>
    ELSE IF 2 * x[k] < 1 THEN Append(Where_Inverted(x, k - 1), k)
         ELSE Where_Inverted(x, k - 1)

\* np.where(result.x > 0.5)[0]: the positions, ascending
RECURSIVE Where(_, _)
Where(x, k) ==
    IF k = 0 THEN <<>>
    ELSE IF 2 * x[k] > 1 THEN Append(Where(x, k - 1), k) ELSE Where(x, k - 1)

\* eligible_df.iloc[selected_indices].copy()
ILoc(df, idx) == [j \in 1 .. Len(idx) |-> df[idx[j]]]

\* Mutant: the ratio without the factor 100
Utilization_Fraction(total_hours, hours) ==
    IF hours > 0 THEN [num |-> total_hours, den |-> hours]
    ELSE [num |-> 0, den |-> 1]

\* (total_hours / available_hours) * 100 if available_hours > 0 else 0,
\* kept as the exact fraction num / den
Utilization(total_hours, hours) ==
    IF hours > 0 THEN [num |-> total_hours * 100, den |-> hours]
    ELSE [num |-> 0, den |-> 1]

ErrNoProjects == "No projects to optimize"
\* Mutant: the message of the empty-list case reused
ErrNoEligible_Collapsed == "No projects to optimize"
ErrNoEligible == "No projects meet the minimum skill match requirement"
ErrFailed == "Optimization failed"
NoError == "None"

\* The frame of one call of optimize_projects: its locals and its return value
Failure(elig, msg) ==
    [eligible_df |-> elig, selected_indices |-> None,
     selected_projects |-> None, optimization_results |-> None, error |-> msg]

\* Mutant: projects_available counts the selected rows
Results_SelectedCount(selected, hours, n_projects) ==
    LET total_earnings == Sum(Column(selected, "total_pay"))
        total_hours == Sum(Column(selected, "hours_required"))
    IN  [total_earnings |-> total_earnings,
         total_hours |-> total_hours,
         available_hours |-> hours,
         hours_remaining |-> hours - total_hours,
         projects_selected |-> Len(selected),
         projects_available |-> Len(selected),
         utilization |-> Utilization(total_hours, hours)]

\* The optimization_results dict of lines 132-143
Results(selected, hours, n_projects) ==
    LET total_earnings == Sum(Column(selected, "total_pay"))
        total_hours == Sum(Column(selected, "hours_required"))
    IN  [total_earnings |-> total_earnings,
         total_hours |-> total_hours,
         available_hours |-> hours,
         hours_remaining |-> hours - total_hours,
         projects_selected |-> Len(selected),
         projects_available |-> n_projects,
         utilization |-> Utilization(total_hours, hours)]

optimize_projects(df, hours, threshold) ==
    LET n_projects == Len(df)
        eligible == BooleanIndex(df, eligible_mask(df, threshold))
        n_eligible == Len(eligible)
        c == Objective(Column(eligible, "total_pay"))
        constraints == LinearConstraint(Column(eligible, "hours_required"), hours)
        result == milp(c, constraints, n_eligible)
        idx == Where(result.x, n_eligible)
        selected == ILoc(eligible, idx)
    IN  IF n_projects = 0 THEN Failure(None, ErrNoProjects)
        ELSE IF n_eligible = 0 THEN Failure(Some(eligible), ErrNoEligible)
        ELSE IF ~result.success THEN Failure(Some(eligible), ErrFailed)
        ELSE [eligible_df |-> Some(eligible),
              selected_indices |-> Some(idx),
              selected_projects |-> Some(selected),
              optimization_results |-> Some(Results(selected, hours, n_projects)),
              error |-> NoError]

\* ------------------------------------------------------------ behaviour
ThisCall ==
    [available_hours |-> available_hours,
     selected_indices |-> selected_indices,
     selected_projects |-> selected_projects,
     optimization_results |-> optimization_results,
     error |-> error]

\* Scenario A / B of section 8: the first four sample projects of
\* create_sample_projects, the default budget of the hours slider
ScenarioA ==
    <<[total_pay |-> 2500, hours_required |-> 40, skill_match |-> 95],
      [total_pay |-> 1800, hours_required |-> 25, skill_match |-> 80],
      [total_pay |-> 3200, hours_required |-> 50, skill_match |-> 90],
      [total_pay |-> 1500, hours_required |-> 20, skill_match |-> 75]>>
ScenarioBudget == 80
ScenarioThresholds == {0, 90}

\* The arguments of the calls of one run: any small candidate list with any
\* threshold, or the scenario list with a scenario threshold
Init ==
    /\ \/ projects_df \in DataFrames /\ min_skill_match \in Thresholds
       \/ projects_df = ScenarioA /\ min_skill_match \in ScenarioThresholds
    /\ tie_rule \in SUBSET (1 .. MaxProjects)
    /\ available_hours = 0
    /\ pc = "start"
    /\ eligible_df = None
    /\ selected_indices = None
    /\ selected_projects = None
    /\ optimization_results = None
    /\ error = NoError
    /\ prev = None
    /\ last_available_hours = None
    /\ last_min_skill = None
    /\ computed_with = None

CallBudgets == IF projects_df = ScenarioA THEN Budgets \cup {ScenarioBudget} ELSE Budgets

\* One call optimize_projects(projects_df, hours, min_skill_match): the
\* first call of the run, or the second, which keeps the first one in prev
Call(hours) ==
    /\ pc \in {"start", "returned"}
    /\ \E out \in {optimize_projects(projects_df, hours, min_skill_match)} :
        /\ available_hours' = hours
        /\ eligible_df' = out.eligible_df
        /\ selected_indices' = out.selected_indices
        /\ selected_projects' = out.selected_projects
        /\ optimization_results' = out.optimization_results
        /\ error' = out.error
    /\ pc' = IF pc = "start" THEN "returned" ELSE "again"
    /\ prev' = IF pc = "start" THEN None ELSE Some(ThisCall)
    /\ UNCHANGED <<projects_df, min_skill_match, tie_rule,
                   last_available_hours, last_min_skill, computed_with>>

Next == \E hours \in CallBudgets : Call(hours)

Spec == Init /\ [][Next]_vars

\* --------------------------------------------------------------- claims
\* What the claims are stated over: the arguments and the outcome of the
\* latest call, and an enumeration of the subsets of the candidates that is
\* independent of the solver.
Returned == pc # "start"
Succeeded == Returned /\ error = NoError
Res == optimization_results[1]
Sel == selected_projects[1]

EligiblePositions ==
    {i \in 1 .. Len(projects_df) : projects_df[i].skill_match >= min_skill_match}

\* The j-th eligible candidate's position in projects_df
NthEligible(j) ==
    CHOOSE i \in EligiblePositions :
        Cardinality({k \in EligiblePositions : k < i}) = j - 1

RECURSIVE SetSum(_, _)
SetSum(S, col) ==
    IF S = {} THEN 0
    ELSE LET i == CHOOSE k \in S : TRUE
         IN  projects_df[i][col] + SetSum(S \ {i}, col)

FeasibleSets ==
    {S \in SUBSET EligiblePositions : SetSum(S, "hours_required") <= available_hours}
BestPay ==
    CHOOSE v \in {SetSum(S, "total_pay") : S \in FeasibleSets} :
        \A S \in FeasibleSets : SetSum(S, "total_pay") <= v
OptimalSets == {S \in FeasibleSets : SetSum(S, "total_pay") = BestPay}

\* The positions in projects_df of the rows of the returned selection
SelectedPositions ==
    {NthEligible(selected_indices[1][j]) : j \in 1 .. Len(selected_indices[1])}

\* C1: whenever a call returns a selection (error is None), the hours of the
\* selected projects sum to at most available_hours, and the reported
\* hours_remaining is available_hours minus that sum and is not negative.
C1_Feasible ==
    Succeeded =>
        /\ Sum(Column(Sel, "hours_required")) <= available_hours
        /\ Res.total_hours = Sum(Column(Sel, "hours_required"))
        /\ Res.hours_remaining = available_hours - Res.total_hours
        /\ Res.hours_remaining >= 0

\* C1 witness: a selection of two projects that uses the budget up exactly
C1_Witness ==
    /\ Succeeded
    /\ Len(Sel) = 2
    /\ Res.total_hours = available_hours
    /\ Res.hours_remaining = 0

\* C2: whenever a call returns a selection, the reported total_earnings is
\* the largest total pay of any subset of the eligible candidates whose hours
\* fit the budget, and it is the pay of the returned rows; on scenario A
\* (budget 80, threshold 0) that is 5000 in 75 hours with 5 hours left.
C2_Optimal ==
    Succeeded =>
        /\ Res.total_earnings = BestPay
        /\ Res.total_earnings = Sum(Column(Sel, "total_pay"))
        /\ (projects_df = ScenarioA /\ available_hours = ScenarioBudget
                /\ min_skill_match = 0) =>
               /\ Res.total_earnings = 5000
               /\ Res.total_hours = 75
               /\ Res.hours_remaining = 5

\* C2 witness: scenario A has been solved
C2_Witness ==
    /\ Succeeded
    /\ projects_df = ScenarioA
    /\ available_hours = ScenarioBudget
    /\ min_skill_match = 0
    /\ SelectedPositions = {2, 3}

\* C3: the eligible pool of a call is exactly the candidates with
\* skill_match >= min_skill_match, in their original order (equality
\* qualifies), and every selected project has skill_match >= min_skill_match.
C3_EligiblePool ==
    (Returned /\ eligible_df # None) =>
        /\ Len(eligible_df[1]) = Cardinality(EligiblePositions)
        /\ \A j \in 1 .. Len(eligible_df[1]) :
               eligible_df[1][j] = projects_df[NthEligible(j)]
        /\ Succeeded =>
               \A j \in 1 .. Len(Sel) : Sel[j].skill_match >= min_skill_match

\* C3 witness: scenario B, threshold 90 on the scores 95, 80, 90, 75 keeps
\* the first and the third candidate
C3_Witness ==
    /\ Returned
    /\ projects_df = ScenarioA
    /\ min_skill_match = 90
    /\ eligible_df = Some(<<ScenarioA[1], ScenarioA[3]>>)

\* C4: a call on an empty candidate list fails with the 'no projects'
\* outcome, a call on a non-empty list none of whose candidates reaches the
\* threshold fails with the 'no eligible items' outcome; the two outcomes
\* differ, and neither returns a selection or results.
C4_FailureKinds ==
    Returned =>
        /\ Len(projects_df) = 0 =>
               /\ error = ErrNoProjects
               /\ error \notin {NoError, ErrNoEligible}
               /\ selected_projects = None /\ optimization_results = None
        /\ (Len(projects_df) > 0 /\ EligiblePositions = {}) =>
               /\ error = ErrNoEligible
               /\ error \notin {NoError, ErrNoProjects}
               /\ selected_projects = None /\ optimization_results = None

\* C4 witness: a non-empty list with no candidate at the threshold was refused
C4_Witness ==
    /\ Returned
    /\ Len(projects_df) = 2
    /\ EligiblePositions = {}
    /\ error = ErrNoEligible

\* C5: when some candidate is eligible but every eligible candidate needs
\* more hours than the budget (a budget of 0 included), the call succeeds
\* with an empty selection: total_earnings, total_hours and
\* projects_selected are 0.
C5_NothingFits ==
    (/\ Returned
     /\ EligiblePositions # {}
     /\ \A i \in EligiblePositions : projects_df[i].hours_required > available_hours) =>
        /\ error = NoError
        /\ selected_projects = Some(<<>>)
        /\ Res.total_earnings = 0
        /\ Res.total_hours = 0
        /\ Res.projects_selected = 0

\* C5 witness: a positive budget that no eligible candidate fits
C5_Witness ==
    /\ Succeeded
    /\ available_hours = 1
    /\ Cardinality(EligiblePositions) = 2
    /\ \A i \in EligiblePositions : projects_df[i].hours_required > available_hours
    /\ selected_projects = Some(<<>>)

\* S comes before T in input order: the earliest position in which the two
\* sets differ belongs to S
Earlier(S, T) == S = T \/ Min((S \ T) \cup (T \ S)) \in S

\* C6: when several feasible subsets of the eligible candidates attain the
\* maximal total pay, the call returns the one with the fewest total hours
\* and, among those still tied, the one whose members come earliest in the
\* input order.
C6_TieBreak ==
    Succeeded =>
        \A T \in OptimalSets :
            \/ SetSum(SelectedPositions, "hours_required") < SetSum(T, "hours_required")
            \/ /\ SetSum(SelectedPositions, "hours_required") = SetSum(T, "hours_required")
               /\ Earlier(SelectedPositions, T)

C8_Monotone ==
    (/\ pc = "again"
     /\ prev[1].error = NoError
     /\ error = NoError
     /\ prev[1].available_hours <= available_hours) =>
        prev[1].optimization_results[1].total_earnings <= Res.total_earnings

\* C8 witness: the larger budget earned strictly more than the smaller one
C8_Witness ==
    /\ pc = "again"
    /\ prev[1].error = NoError
    /\ error = NoError
    /\ prev[1].available_hours < available_hours
    /\ 0 < prev[1].optimization_results[1].total_earnings
    /\ prev[1].optimization_results[1].total_earnings < Res.total_earnings

\* C9 as stated: in every successful result the utilization is the fraction
\* total_hours / available_hours, a value in [0, 1], when available_hours > 0,
\* and 0 when available_hours = 0.
C9_Fraction ==
    Succeeded =>
        IF available_hours > 0
        THEN /\ Res.utilization.num * available_hours
                    = Res.total_hours * Res.utilization.den
             /\ 0 <= Res.utilization.num
             /\ Res.utilization.num <= Res.utilization.den
        ELSE Res.utilization.num = 0

\* C9 as amended: in every successful result the utilization is the
\* percentage 100 * total_hours / available_hours, a value in [0, 100], when
\* available_hours > 0, and 0 when available_hours = 0.
C9_Percent ==
    Succeeded =>
        IF available_hours > 0
        THEN /\ Res.utilization.num * available_hours
                    = 100 * Res.total_hours * Res.utilization.den
             /\ 0 <= Res.utilization.num
             /\ Res.utilization.num <= 100 * Res.utilization.den
        ELSE Res.utilization.num = 0

\* C9 witness: a selection that uses part of a positive budget
C9_Witness ==
    /\ Succeeded
    /\ 0 < Res.total_hours
    /\ Res.total_hours < available_hours

\* C10 as stated: in every successful result projects_available is the
\* number of eligible candidates (skill_match >= min_skill_match), and
\* projects_selected is at most that number.
C10_CountsEligible ==
    Succeeded =>
        /\ Res.projects_available = Cardinality(EligiblePositions)
        /\ Res.projects_selected <= Res.projects_available

\* C10 as amended: in every successful result projects_available is the
\* number of candidates in the list passed in, eligible or not, and
\* projects_selected is the number of returned rows, at most the number of
\* eligible candidates, which is at most projects_available.
C10_CountsAll ==
    Succeeded =>
        /\ Res.projects_available = Len(projects_df)
        /\ Res.projects_selected = Len(Sel)
        /\ Res.projects_selected <= Cardinality(EligiblePositions)
        /\ Cardinality(EligiblePositions) <= Res.projects_available

\* C10 witness: a selection made while some candidate was below the threshold
C10_Witness ==
    /\ Succeeded
    /\ Cardinality(EligiblePositions) < Len(projects_df)
    /\ Res.projects_selected >= 1

\* ------------------------------------------------- unvalidated arguments
\* optimize_projects takes whatever it is given: the same calls on arguments
\* that the form and the sliders would not produce, a negative total_pay or
\* hours_required, a threshold below 0 or above 100.
MinSkillPercent == 0
MaxSkillPercent == 100
RawRows ==
    [total_pay : PayValues \cup {0 - 1}, hours_required : HoursValues \cup {0 - 1},
     skill_match : SkillValues]
RawDataFrames == UNION {[1 .. k -> RawRows] : k \in 0 .. MaxProjects}
RawThresholds == Thresholds \cup {MinSkillPercent - 1, MaxSkillPercent + 1}

InitRaw ==
    /\ projects_df \in RawDataFrames
    /\ min_skill_match \in RawThresholds
    /\ tie_rule \in SUBSET (1 .. MaxProjects)
    /\ available_hours = 0
    /\ pc = "start"
    /\ eligible_df = None
    /\ selected_indices = None
    /\ selected_projects = None
    /\ optimization_results = None
    /\ error = NoError
    /\ prev = None
    /\ last_available_hours = None
    /\ last_min_skill = None
    /\ computed_with = None

SpecRaw == InitRaw /\ [][Next]_vars

InvalidInput ==
    \/ \E i \in 1 .. Len(projects_df) :
           projects_df[i].total_pay < 0 \/ projects_df[i].hours_required < 0
    \/ min_skill_match < MinSkillPercent
    \/ min_skill_match > MaxSkillPercent

\* The latest call reached line 126: it passed both early returns
SolverInvoked == Returned /\ eligible_df # None /\ Len(eligible_df[1]) > 0

\* C11: a call whose candidate list holds a negative total_pay or a negative
\* hours_required, or whose min_skill_match is outside [0,100], is rejected
\* with a failure before solving: the solver is not invoked and no selection
\* is returned.  (Any failure is taken as the rejection here; the claim asks
\* for one of the configuration-error kind.)
C11_Rejected ==
    (Returned /\ InvalidInput) =>
        /\ error # NoError
        /\ ~SolverInvoked
        /\ selected_projects = None
        /\ optimization_results = None

\* ------------------------------------------------------------- the app
\* main() is run from top to bottom once per user interaction (a Streamlit
\* rerun): the widget the user touched has its new value, every button the
\* user did not press reads False.  The session state ss is what survives
\* from one run to the next; a key that is absent is None.
create_sample_projects ==
    <<[total_pay |-> 2500, hours_required |-> 40, skill_match |-> 95],
      [total_pay |-> 1800, hours_required |-> 25, skill_match |-> 80],
      [total_pay |-> 3200, hours_required |-> 50, skill_match |-> 90],
      [total_pay |-> 1500, hours_required |-> 20, skill_match |-> 75],
      [total_pay |-> 800, hours_required |-> 12, skill_match |-> 60],
      [total_pay |-> 1200, hours_required |-> 18, skill_match |-> 85],
      [total_pay |-> 600, hours_required |-> 10, skill_match |-> 70],
      [total_pay |-> 2000, hours_required |-> 30, skill_match |-> 88]>>

DefaultHours == 80
DefaultMinSkill == 50
SliderHours == (1 .. MaxBudget) \cup {DefaultHours}
SliderSkills == SkillValues \cup {DefaultMinSkill}
\* What the form can add: a paid project (the values of the form's fields)
FormRows == [total_pay : {1, 2}, hours_required : HoursValues, skill_match : {1}]

\* The buttons of one run: none pressed
Quiet ==
    [use_sample |-> FALSE, submitted |-> FALSE, new_project |-> <<>>,
     clear |-> FALSE, optimize |-> FALSE]

\* Mutant: only the hours slider is compared with its remembered value
ClearIfChanged_HoursOnly(ss, hours, skill) ==
    IF ss.last_available_hours # Some(hours)
    THEN [ss EXCEPT !.optimization_results = None,
                    !.selected_projects = None,
                    !.last_available_hours = Some(hours),
                    !.last_min_skill = Some(skill)]
    ELSE ss

\* Lines 207-215: clear old results if the constraints changed
ClearIfChanged(ss, hours, skill) ==
    IF ss.last_available_hours # Some(hours) \/ ss.last_min_skill # Some(skill)
    THEN [ss EXCEPT !.optimization_results = None,
                    !.selected_projects = None,
                    !.last_available_hours = Some(hours),
                    !.last_min_skill = Some(skill)]
    ELSE ss

\* Lines 340-356: the results tab up to the display
Tab2(ss, hours, skill, w) ==
    IF Len(ss.projects_df[1]) = 0 THEN ss
    ELSE IF w.optimize
    THEN LET out == optimize_projects(ss.projects_df[1], hours, skill)
         IN  IF out.error # NoError
             THEN [ss EXCEPT !.error = out.error]
             ELSE [ss EXCEPT !.optimization_results = out.optimization_results,
                             !.selected_projects = out.selected_projects]
    ELSE ss

\* One run of main with the sliders at hours and skill and the buttons w.
\* st.rerun() ends the run and starts the next one, with no button pressed.
RECURSIVE main(_, _, _, _)
main(ss, hours, skill, w) ==
    LET s0 == [ss EXCEPT !.error = NoError]
        s1 == IF s0.last_available_hours = None
              THEN [s0 EXCEPT !.last_available_hours = Some(hours),
                              !.last_min_skill = Some(skill)]
              ELSE s0
        s2 == ClearIfChanged(s1, hours, skill)
        s3 == IF w.use_sample
              THEN [s2 EXCEPT !.projects_df = Some(create_sample_projects)]
              ELSE s2
        s4 == IF s3.projects_df = None THEN [s3 EXCEPT !.projects_df = Some(<<>>)] ELSE s3
    IN  IF w.submitted
        THEN main([s4 EXCEPT !.projects_df = Some(s4.projects_df[1] \o w.new_project)],
                  hours, skill, Quiet)
        ELSE IF Len(s4.projects_df[1]) > 0 /\ w.clear
        THEN main([s4 EXCEPT !.projects_df = Some(<<>>)], hours, skill, Quiet)
        ELSE Tab2(s4, hours, skill, w)

\* The session state before a run
Session ==
    [projects_df |-> IF pc = "start" THEN None ELSE Some(projects_df),
     last_available_hours |-> last_available_hours,
     last_min_skill |-> last_min_skill,
     optimization_results |-> optimization_results,
     selected_projects |-> selected_projects,
     error |-> error]

\* A fresh session: nothing stored, the sliders at their default values
InitApp ==
    /\ projects_df = <<>>
    /\ available_hours = DefaultHours
    /\ min_skill_match = DefaultMinSkill
    /\ tie_rule \in SUBSET (1 .. MaxProjects)
    /\ pc = "start"
    /\ eligible_df = None
    /\ selected_indices = None
    /\ selected_projects = None
    /\ optimization_results = None
    /\ error = NoError
    /\ prev = None
    /\ last_available_hours = None
    /\ last_min_skill = None
    /\ computed_with = None

Run(hours, skill, w) ==
    \E new \in {main(Session, hours, skill, w)} :
        /\ available_hours' = hours
        /\ min_skill_match' = skill
        /\ projects_df' = new.projects_df[1]
        /\ last_available_hours' = new.last_available_hours
        /\ last_min_skill' = new.last_min_skill
        /\ optimization_results' = new.optimization_results
        /\ selected_projects' = new.selected_projects
        /\ error' = new.error
        /\ computed_with' =
               IF new.optimization_results = None THEN None
               ELSE IF w.optimize /\ new.error = NoError THEN Some(<<hours, skill>>)
               ELSE computed_with
        /\ pc' = "rendered"
        /\ UNCHANGED <<tie_rule, eligible_df, selected_indices, prev>>

\* The first run of the session
PageLoad == pc = "start" /\ Run(available_hours, min_skill_match, Quiet)

MoveHoursSlider(h) ==
    /\ pc = "rendered"
    /\ h # available_hours
    /\ Run(h, min_skill_match, Quiet)

MoveSkillSlider(k) ==
    /\ pc = "rendered"
    /\ k # min_skill_match
    /\ Run(available_hours, k, Quiet)

LoadSampleData ==
    /\ pc = "rendered"
    /\ Run(available_hours, min_skill_match, [Quiet EXCEPT !.use_sample = TRUE])

\* The form submitted with a project name; the list is kept to MaxProjects
\* rows unless it is the sample list
AddProject(row) ==
    /\ pc = "rendered"
    /\ Len(projects_df) < MaxProjects
    /\ Run(available_hours, min_skill_match,
           [Quiet EXCEPT !.submitted = TRUE, !.new_project = <<row>>])

\* The clear button is drawn only while the list is not empty
ClearAllProjects ==
    /\ pc = "rendered"
    /\ Len(projects_df) > 0
    /\ Run(available_hours, min_skill_match, [Quiet EXCEPT !.clear = TRUE])

\* The optimize button is drawn only while the list is not empty
Optimize ==
    /\ pc = "rendered"
    /\ Len(projects_df) > 0
    /\ Run(available_hours, min_skill_match, [Quiet EXCEPT !.optimize = TRUE])

NextApp ==
    \/ PageLoad
    \/ \E h \in SliderHours : MoveHoursSlider(h)
    \/ \E k \in SliderSkills : MoveSkillSlider(k)
    \/ LoadSampleData
    \/ \E row \in FormRows : AddProject(row)
    \/ ClearAllProjects
    \/ Optimize

SpecApp == InitApp /\ [][NextApp]_vars

\* Line 359 inside the else of line 340: the stored results are shown
Displayed == pc = "rendered" /\ Len(projects_df) > 0 /\ optimization_results # None

\* C12: after any sequence of user actions, whenever a stored optimization
\* result is displayed it is the result of optimize_projects on the current
\* project list, the current available hours and the current minimum skill
\* match; a result computed from an earlier list is never displayed after
\* the list has changed.
C12_DisplayedIsCurrent ==
    Displayed =>
        \E out \in {optimize_projects(projects_df, available_hours, min_skill_match)} :
            /\ out.error = NoError
            /\ optimization_results = out.optimization_results
            /\ selected_projects = out.selected_projects

\* C13: in every run of main in which a slider differs from the value
\* remembered from the run before, both stored entries are removed and the
\* remembered values are set to the sliders' values; and whenever a result
\* is stored after a run, it was computed with the available hours and the
\* minimum skill match the sliders have then.
C13_ClearedOnChange ==
    [][/\ (/\ last_available_hours # None
           /\ \/ last_available_hours # Some(available_hours')
              \/ last_min_skill # Some(min_skill_match')) =>
              /\ optimization_results' = None
              /\ selected_projects' = None
              /\ last_available_hours' = Some(available_hours')
              /\ last_min_skill' = Some(min_skill_match')
       /\ optimization_results' # None =>
              /\ selected_projects' # None
              /\ computed_with' = Some(<<available_hours', min_skill_match'>>)
              /\ optimization_results'[1].available_hours = available_hours'
              /\ last_available_hours' = Some(available_hours')
              /\ last_min_skill' = Some(min_skill_match')]_vars

\* C13 witness: a result is stored that was computed after both sliders had
\* been moved away from their default values
C13_Witness ==
    /\ pc = "rendered"
    /\ optimization_results # None
    /\ available_hours # DefaultHours
    /\ min_skill_match # DefaultMinSkill
    /\ computed_with = Some(<<available_hours, min_skill_match>>)
    /\ optimization_results[1].projects_selected >= 1

====
